---- MODULE Spec2Model ----
(***************************************************************************)
(* Model of src/main.py: the FastAPI handler get_instagram_profile with    *)
(* its slowapi rate limiter ("10/minute", default fixed-window strategy    *)
(* over in-memory storage), its cachetools TTLCache and its mapping of     *)
(* exceptions to HTTP responses.                                           *)
(*                                                                         *)
(* The handler is an `async def` without any await: the event loop runs    *)
(* one handler from its limiter check to its return before it starts the   *)
(* next one.  Only the clock moves while a handler is running.             *)
(*                                                                         *)
(* Time is counted in abstract units.  per_minute, ttl, maxsize and the    *)
(* limit amount are scaled down from 60 s, 3600 s, 1000 and 10 so that     *)
(* full windows, expiry and a full cache are reached.                      *)
(***************************************************************************)
EXTENDS Integers, Sequences, FiniteSets, TLC

\* ------------------------------------------------------------------ bounds
\* "10/minute": amount of the limit (10 in the source)
amount == 2
\* "10/minute": length of the limiter's window (60 s in the source)
per_minute == 2
\* TTLCache(ttl=3600)
ttl == 3
\* TTLCache(maxsize=1000)
maxsize == 1
\* the clock stops here
MaxTime == 4

\* L.request_timeout = 30 (seconds), in ticks of the clock
request_timeout == 1

\* instaloader.Instaloader(max_connection_attempts=3)
max_connection_attempts == 3

\* hits counted for one identity in one window: the counter also counts
\* denied hits, of which the model lets one happen per window
MaxHits == amount + 1

\* ------------------------------------------------------------------ inputs
Identities == {"ip1", "ip2"}
Usernames == {<<"a">>, <<"A">>, <<"b">>}
\* the inputs of the specification of the limiter: every client, one cache key
RateUsernames == {<<"a">>, <<"A">>}
\* the inputs of the specification of liveness: one client, one username
LiveIdentities == {"ip1"}
LiveUsernames == {<<"a">>}
\* the inputs of the specification of the cache: one client, every username
CacheIdentities == {"ip1"}
\* the follower counts the platform may report for a profile
Followers == {1, 2}
NoName == <<>>

\* ----------------------------------------------------------------- helpers
Put(f, k, v) == [x \in (DOMAIN f) \cup {k} |-> IF x = k THEN v ELSE f[x]]

Remove(f, k) == [x \in (DOMAIN f) \ {k} |-> f[x]]

Restrict(f, S) == [x \in (DOMAIN f) \cap S |-> f[x]]

SelectSeq2(s, S) == SelectSeq(s, LAMBDA x : x \in S)

EmptyMap == [x \in {} |-> 0]

\* str.lower() on the characters of the modelled alphabet
LowerChar(c) ==
    CASE c = "A" -> "a"
      [] c = "B" -> "b"
      [] c = "C" -> "c"
      [] OTHER -> c

\* mutant of lower: the username is used as it was typed
lower_verbatim(s) == s

\* username.lower()
lower(s) == [i \in DOMAIN s |-> LowerChar(s[i])]

\* ----------------------------------------------------------- rate limiter
\* mutant of get_remote_address: every client is counted under one key
get_remote_address_shared(client) == "shared"

\* slowapi.util.get_remote_address: the key of a request is its client address
get_remote_address(client) == client

\* limits MemoryStorage.get: an expired counter is dropped before it is read
storage_get(l, key, t) ==
    IF key \in DOMAIN l.expirations /\ l.expirations[key] <= t
    THEN [storage |-> Remove(l.storage, key), expirations |-> Remove(l.expirations, key)]
    ELSE l

\* limits MemoryStorage.__expire_events: the storage's expiry timer drops
\* every expired counter; storage_get makes a dropped and an expired counter
\* indistinguishable for every hit
storage_expire(l, t) ==
    LET live == {k \in DOMAIN l.expirations : l.expirations[k] > t}
    IN  [storage |-> Restrict(l.storage, live), expirations |-> Restrict(l.expirations, live)]

\* mutant of storage_incr: every hit restarts the window (elastic expiry)
storage_incr_elastic(l, key, t) ==
    LET g == storage_get(l, key, t)
        n == IF key \in DOMAIN g.storage THEN g.storage[key] + 1 ELSE 1
    IN  [storage |-> Put(g.storage, key, n),
         expirations |-> Put(g.expirations, key, t + per_minute)]

\* limits MemoryStorage.incr, elastic_expiry = False: the counter is
\* incremented on every hit, the expiry is set only by the first hit of a window
storage_incr(l, key, t) ==
    LET g == storage_get(l, key, t)
        n == IF key \in DOMAIN g.storage THEN g.storage[key] + 1 ELSE 1
    IN  [storage |-> Put(g.storage, key, n),
         expirations |-> IF n = 1 THEN Put(g.expirations, key, t + per_minute)
                         ELSE g.expirations]

\* mutant of hit_allowed: the last request of the budget is refused
hit_allowed_strict(l, key, t) == storage_incr(l, key, t).storage[key] < amount

\* mutant of hit_allowed: one request too many is let through
hit_allowed_lax(l, key, t) == storage_incr(l, key, t).storage[key] <= amount + 1

\* limits FixedWindowRateLimiter.hit: allowed iff the incremented counter
\* does not exceed the amount
hit_allowed(l, key, t) == storage_incr(l, key, t).storage[key] <= amount

\* counter of the live window of a key
window_count(l, key, t) ==
    LET g == storage_get(l, key, t)
    IN  IF key \in DOMAIN g.storage THEN g.storage[key] ELSE 0

\* ------------------------------------------------------------------- cache
\* TTLCache state: data (key -> value), links (keys, least recently used
\* first), expires (key -> expiry time)
EmptyCache == [data |-> EmptyMap, links |-> <<>>, expires |-> EmptyMap]

\* TTLCache.expire(time): drop every entry with expires <= time
cache_expire(c, t) ==
    LET live == {k \in DOMAIN c.data : t < c.expires[k]}
    IN  [data |-> Restrict(c.data, live),
         links |-> SelectSeq2(c.links, live),
         expires |-> Restrict(c.expires, live)]

\* TTLCache.__contains__: present and not expired (timer() < link.expires);
\* no reordering, no purge
cache_contains(c, key, t) == key \in DOMAIN c.data /\ t < c.expires[key]

\* TTLCache.__getlink: move the key to the most-recently-used end
cache_getlink(c, key) ==
    [c EXCEPT !.links = Append(SelectSeq2(c.links, (DOMAIN c.data) \ {key}), key)]

\* TTLCache.__getitem__ succeeds iff the key is present and not expired;
\* otherwise __missing__ raises KeyError
cache_getitem_ok(c, key, t) == key \in DOMAIN c.data /\ t < c.expires[key]

\* mutant of cache_after_getitem: a read restarts the entry's time to live
cache_after_getitem_touch(c, key, t) ==
    IF key \in DOMAIN c.data
    THEN [cache_getlink(c, key) EXCEPT !.expires[key] = t + ttl]
    ELSE c

\* state after TTLCache.__getitem__ at time t: a present key is moved to the MRU end
\* whether or not it has expired
cache_after_getitem(c, key, t) ==
    IF key \in DOMAIN c.data THEN cache_getlink(c, key) ELSE c

\* TTLCache.popitem after expire: remove the least recently used key
cache_popitem(c) ==
    LET k == Head(c.links)
    IN  [data |-> Remove(c.data, k), links |-> Tail(c.links), expires |-> Remove(c.expires, k)]

\* mutant of cache_len: the entries are counted as a dict counts them
cache_len_unpurged(c, t) == Cardinality(DOMAIN c.data)

\* TTLCache.__len__: expire, then count
cache_len(c, t) == Cardinality(DOMAIN cache_expire(c, t).data)

\* mutant of cache_make_room: nothing is evicted
cache_make_room_none(c) == c

\* Cache.__setitem__: a new key evicts while the cache is full
RECURSIVE cache_make_room(_)
cache_make_room(c) ==
    IF Cardinality(DOMAIN c.data) + 1 > maxsize /\ c.links # <<>>
    THEN cache_make_room(cache_popitem(c))
    ELSE c

\* TTLCache.__setitem__: expire, make room for a new key, store, and put
\* the key at the MRU end with expiry now + ttl
cache_setitem(c, key, value, t) ==
    LET e == cache_expire(c, t)
        r == IF key \in DOMAIN e.data THEN e ELSE cache_make_room(e)
    IN  [data |-> Put(r.data, key, value),
         links |-> Append(SelectSeq2(r.links, (DOMAIN r.data) \ {key}), key),
         expires |-> Put(r.expires, key, t + ttl)]

\* -------------------------------------------------- exceptions, responses
NoDetails == [fmt |-> "none", arg |-> NoName]

Response(status, error, details) == [status |-> status, error |-> error, details |-> details]

NoResponse == Response(0, "none", NoDetails)

\* slowapi RateLimitExceeded is an HTTPException with status 429, raised by
\* the decorator and answered by the framework
RateLimitExceeded == Response(429, "Rate limit exceeded", [fmt |-> "10 per 1 minute", arg |-> NoName])

\* return profile_data / return profile_cache[key]
Success(record) == [status |-> 200, error |-> "none", details |-> NoDetails, body |-> record]

Exc(cls, details) == [cls |-> cls, details |-> details]

\* HTTPException raised inside the handler's outer try
HTTPExc(status, error, details) ==
    [cls |-> "HTTPException", details |-> details, status |-> status, error |-> error]

\* str(e)
Str(e) == [fmt |-> "str(" \o e.cls \o ")", arg |-> e.details.arg]

\* isinstance(e, instaloader.exceptions.InstaloaderException)
IsInstaloaderException(e) ==
    e.cls \in {"ProfileNotExistsException", "ConnectionException", "InstaloaderException"}

\* lines 94-100: the inner try turns ProfileNotExistsException into
\* HTTPException(404); every other exception passes through unchanged
inner_except(e, username) ==
    IF e.cls = "ProfileNotExistsException"
    THEN HTTPExc(404, "Profile not found", [fmt |-> "@{} doesn't exist on Instagram", arg |-> username])
    ELSE e

\* mutant of outer_except: the clause of the base class InstaloaderException
\* stands before the clause of ConnectionException
outer_except_base_first(e) ==
    IF e.cls = "ProfileNotExistsException"
    THEN Response(404, "Profile not found", Str(e))
    ELSE IF IsInstaloaderException(e)
    THEN Response(500, "Instagram data fetch failed", Str(e))
    ELSE IF e.cls = "ConnectionException"
    THEN Response(503, "Instagram connection failed", [fmt |-> "Instagram may be blocking requests. Try again later.", arg |-> NoName])
    ELSE Response(500, "Internal server error", Str(e))

\* mutant of outer_except: there is no `except Exception`; what the other
\* clauses do not catch leaves the handler as it was raised
outer_except_no_catch_all(e) ==
    IF e.cls = "ProfileNotExistsException"
    THEN Response(404, "Profile not found", Str(e))
    ELSE IF e.cls = "ConnectionException"
    THEN Response(503, "Instagram connection failed", [fmt |-> "Instagram may be blocking requests. Try again later.", arg |-> NoName])
    ELSE IF IsInstaloaderException(e)
    THEN Response(500, "Instagram data fetch failed", Str(e))
    ELSE IF e.cls = "HTTPException"
    THEN Response(e.status, e.error, e.details)
    ELSE Response(500, e.cls, NoDetails)

\* lines 127-150: the except clauses of the outer try, in order.  An
\* HTTPException raised in the try body is an Exception and reaches the last one.
outer_except(e) ==
    IF e.cls = "ProfileNotExistsException"
    THEN Response(404, "Profile not found", Str(e))
    ELSE IF e.cls = "ConnectionException"
    THEN Response(503, "Instagram connection failed", [fmt |-> "Instagram may be blocking requests. Try again later.", arg |-> NoName])
    ELSE IF IsInstaloaderException(e)
    THEN Response(500, "Instagram data fetch failed", Str(e))
    ELSE Response(500, "Internal server error", Str(e))

\* mutant of fetch_timed_out: no connection attempt ever times out
fetch_timed_out_never(start, t) == FALSE

\* lines 55, 60: the client makes at most max_connection_attempts connection
\* attempts and each of them is given up after the request timeout; when the
\* last one is given up the library raises a ConnectionException
fetch_timed_out(start, t) == t >= start + max_connection_attempts * request_timeout

\* what Profile.from_username can do: return a profile or raise
FetchResults ==
    [kind : {"profile"}, userid : {0, 1}, followers : Followers]
    \cup [kind : {"raise"},
          cls : {"ProfileNotExistsException", "ConnectionException", "InstaloaderException", "Exception"}]

\* ProfileData(...) built from the profile fetched for key
ProfileData(key, res) == [username |-> key, followers |-> res.followers]

\* ------------------------------------------------------------------- state
VARIABLES
    now,        \* the clock (time.time() and the cache's timer)
    pc,         \* position of the running handler: idle, contains, getitem, fetch, done
    req,        \* the request in the handler: client address and username (history:
                \* again, whether it is admitted after a denial of its client)
    resp,       \* the response of the handler once pc = "done"
    limiter,    \* storage and expirations of the limiter's MemoryStorage
    cache,      \* profile_cache
    trace,      \* history: what the running handler has touched, in order
    observed,   \* history: the client whose requests the histories admitLog, win and
                \* wasDenied record; any client, chosen at the start
    admitLog,   \* history: times of the client's admissions in (now - per_minute, now]
    win,        \* history: start and results of the client's requests in its current window
    shadow,     \* history: per client a, a limiter that sees every request but those of a
    shadowOK,   \* history: every request was answered as in the runs without another client
    lastPut,    \* history: per key, time and record of its last insert into the cache
    fetched,    \* history: what Profile.from_username did for the running handler
    wasDenied,  \* history: whether the client has been denied
    start_time, \* start_time of the running handler (line 90), NoTime before the fetch
    health      \* the response of /health when the last step was its handler

vars == <<now, pc, req, resp, limiter, cache, trace, observed, admitLog, win, shadow, shadowOK,
          lastPut, fetched, wasDenied, start_time, health>>

NoReq == [client |-> "none", username |-> NoName, again |-> FALSE]

EmptyLimiter == [storage |-> EmptyMap, expirations |-> EmptyMap]

NoWindow == [start |-> -1, results |-> <<>>]

NoFetch == [kind |-> "none"]

NoTime == -1

NoHealth == [status |-> "none"]

Init ==
    /\ now = 0
    /\ pc = "idle"
    /\ req = NoReq
    /\ resp = NoResponse
    /\ limiter = EmptyLimiter
    /\ cache = EmptyCache
    /\ trace = <<>>
    /\ observed \in Identities
    /\ admitLog = <<>>
    /\ win = NoWindow
    /\ shadow = [c \in Identities |-> EmptyLimiter]
    /\ shadowOK = TRUE
    /\ lastPut = EmptyMap
    /\ fetched = NoFetch
    /\ wasDenied = FALSE
    /\ start_time = NoTime
    /\ health = NoHealth

\* the window a request of a client at time t falls in, with its result appended
win_record(w, t, result) ==
    IF w.start = -1 \/ t >= w.start + per_minute
    THEN [start |-> t, results |-> <<result>>]
    ELSE [w EXCEPT !.results = Append(@, result)]

\* a window that is over is forgotten
win_expire(w, t) == IF w.start # -1 /\ t >= w.start + per_minute THEN NoWindow ELSE w

\* the last result of a window replaced
win_mark(w, result) ==
    IF w.results = <<>> THEN w ELSE [w EXCEPT !.results[Len(w.results)] = result]

\* admissions not older than one window length
recent(log, t) == SelectSeq(log, LAMBDA x : x > t - per_minute)

\* ----------------------------------------------------------------- actions
\* mutant of Arrive: the cache is looked at before the limit is checked
Arrive_cache_first(client, username) ==
    LET key == get_remote_address(client)
        allowed == hit_allowed(limiter, key, now)
    IN  /\ pc = "idle"
        /\ window_count(limiter, key, now) < MaxHits
        /\ limiter' = storage_incr(limiter, key, now)
        /\ req' = [client |-> client, username |-> username,
                   again |-> allowed /\ client = observed /\ wasDenied]
        /\ trace' = <<"contains", "limit">>
        /\ pc' = IF ~allowed THEN "done"
                 ELSE IF cache_contains(cache, lower(username), now) THEN "getitem" ELSE "fetch"
        /\ resp' = IF allowed THEN NoResponse ELSE RateLimitExceeded
        /\ admitLog' = IF client = observed /\ allowed THEN Append(admitLog, now) ELSE admitLog
        /\ win' = IF client = observed
                  THEN win_record(win, now, IF allowed THEN "admitted" ELSE "denied")
                  ELSE win
        /\ shadow' = [a \in Identities |->
                           IF a = client THEN shadow[a] ELSE storage_incr(shadow[a], key, now)]
        /\ shadowOK' = (shadowOK /\ \A a \in Identities \ {client} :
                                        hit_allowed(shadow[a], key, now) = allowed)
        /\ wasDenied' = (wasDenied \/ (client = observed /\ ~allowed))
        /\ start_time' = IF pc' = "fetch" THEN now ELSE NoTime
        /\ health' = NoHealth
        /\ UNCHANGED <<now, cache, lastPut, fetched, observed>>

\* line 75, @limiter.limit("10/minute"): the decorator checks the limit
\* before it calls the handler; a denied request is answered 429 at once
Arrive(client, username) ==
    LET key == get_remote_address(client)
        allowed == hit_allowed(limiter, key, now)
    IN  /\ pc = "idle"
        /\ window_count(limiter, key, now) < MaxHits
        /\ limiter' = storage_incr(limiter, key, now)
        /\ req' = [client |-> client, username |-> username,
                   again |-> allowed /\ client = observed /\ wasDenied]
        /\ trace' = <<"limit">>
        /\ pc' = IF allowed THEN "contains" ELSE "done"
        /\ resp' = IF allowed THEN NoResponse ELSE RateLimitExceeded
        /\ admitLog' = IF client = observed /\ allowed THEN Append(admitLog, now) ELSE admitLog
        /\ win' = IF client = observed
                  THEN win_record(win, now, IF allowed THEN "admitted" ELSE "denied")
                  ELSE win
        /\ shadow' = [a \in Identities |->
                           IF a = client THEN shadow[a] ELSE storage_incr(shadow[a], key, now)]
        /\ shadowOK' = (shadowOK /\ \A a \in Identities \ {client} :
                                        hit_allowed(shadow[a], key, now) = allowed)
        /\ wasDenied' = (wasDenied \/ (client = observed /\ ~allowed))
        /\ health' = NoHealth
        /\ UNCHANGED <<now, cache, lastPut, fetched, observed, start_time>>

\* line 85: if username.lower() in profile_cache
CacheContains ==
    /\ pc = "contains"
    /\ pc' = IF cache_contains(cache, lower(req.username), now) THEN "getitem" ELSE "fetch"
    /\ trace' = Append(trace, "contains")
    /\ start_time' = IF pc' = "fetch" THEN now ELSE NoTime
    /\ health' = NoHealth
    /\ UNCHANGED <<now, req, resp, limiter, cache, admitLog, win, shadow, shadowOK,
                   lastPut, fetched, wasDenied, observed>>

\* mutant of CacheGetItem: a request served from the cache gives its budget back
CacheGetItem_refund ==
    LET key == lower(req.username)
        ok == cache_getitem_ok(cache, key, now)
        lkey == get_remote_address(req.client)
    IN  /\ pc = "getitem"
        /\ cache' = cache_after_getitem(cache, key, now)
        /\ resp' = IF ok THEN Success(cache.data[key])
                   ELSE outer_except(Exc("KeyError", [fmt |-> "{}", arg |-> key]))
        /\ win' = IF ok /\ req.client = observed THEN win_mark(win, "cached") ELSE win
        /\ limiter' = IF ok /\ lkey \in DOMAIN limiter.storage
                      THEN [limiter EXCEPT !.storage[lkey] = @ - 1]
                      ELSE limiter
        /\ pc' = "done"
        /\ trace' = Append(trace, "getitem")
        /\ health' = NoHealth
        /\ UNCHANGED <<now, req, admitLog, shadow, shadowOK, lastPut, fetched, wasDenied, observed, start_time>>

\* line 87: return profile_cache[username.lower()]; a KeyError is caught at line 145
CacheGetItem ==
    LET key == lower(req.username)
        ok == cache_getitem_ok(cache, key, now)
    IN  /\ pc = "getitem"
        /\ cache' = cache_after_getitem(cache, key, now)
        /\ resp' = IF ok THEN Success(cache.data[key])
                   ELSE outer_except(Exc("KeyError", [fmt |-> "{}", arg |-> key]))
        /\ win' = IF ok /\ req.client = observed THEN win_mark(win, "cached") ELSE win
        /\ pc' = "done"
        /\ trace' = Append(trace, "getitem")
        /\ health' = NoHealth
        /\ UNCHANGED <<now, req, limiter, admitLog, shadow, shadowOK, lastPut, fetched, wasDenied, observed, start_time>>

\* mutant of FetchReturn: the record is stored under the username as it was typed
FetchReturn_key_as_typed(res) ==
    LET key == lower(req.username)
        valid == res.kind = "profile" /\ res.userid # 0
        raised == IF res.kind = "raise"
                  THEN inner_except(Exc(res.cls, [fmt |-> "{}", arg |-> key]), req.username)
                  ELSE HTTPExc(404, "Profile not found",
                               [fmt |-> "Invalid profile data received", arg |-> NoName])
    IN  /\ pc = "fetch"
        /\ fetch_timed_out(start_time, now) => (res.kind = "raise" /\ res.cls = "ConnectionException")
        /\ cache' = IF valid
                    THEN cache_setitem(cache, req.username, ProfileData(key, res), now)
                    ELSE cache
        /\ lastPut' = IF valid THEN Put(lastPut, key, [at |-> now, record |-> ProfileData(key, res)])
                      ELSE lastPut
        /\ fetched' = res
        /\ resp' = IF valid THEN Success(ProfileData(key, res)) ELSE outer_except(raised)
        /\ pc' = "done"
        /\ trace' = IF valid THEN trace \o <<"fetch", "setitem">> ELSE Append(trace, "fetch")
        /\ health' = NoHealth
        /\ UNCHANGED <<now, req, limiter, admitLog, win, shadow, shadowOK, wasDenied, observed, start_time>>

\* mutant of FetchReturn: the fetched profile is stored before its userid is
\* looked at
FetchReturn_store_first(res) ==
    LET key == lower(req.username)
        valid == res.kind = "profile" /\ res.userid # 0
        raised == IF res.kind = "raise"
                  THEN inner_except(Exc(res.cls, [fmt |-> "{}", arg |-> key]), req.username)
                  ELSE HTTPExc(404, "Profile not found",
                               [fmt |-> "Invalid profile data received", arg |-> NoName])
    IN  /\ pc = "fetch"
        /\ fetch_timed_out(start_time, now) => (res.kind = "raise" /\ res.cls = "ConnectionException")
        /\ cache' = IF res.kind = "profile"
                    THEN cache_setitem(cache, key, ProfileData(key, res), now)
                    ELSE cache
        /\ lastPut' = IF valid THEN Put(lastPut, key, [at |-> now, record |-> ProfileData(key, res)])
                      ELSE lastPut
        /\ fetched' = res
        /\ resp' = IF valid THEN Success(ProfileData(key, res)) ELSE outer_except(raised)
        /\ pc' = "done"
        /\ trace' = IF valid THEN trace \o <<"fetch", "setitem">> ELSE Append(trace, "fetch")
        /\ health' = NoHealth
        /\ UNCHANGED <<now, req, limiter, admitLog, win, shadow, shadowOK, wasDenied, observed, start_time>>

\* lines 92-125: Profile.from_username returns or raises, at the latest when
\* its last connection attempt has timed out; a profile with a userid is
\* stored in the cache and returned
FetchReturn(res) ==
    LET key == lower(req.username)
        valid == res.kind = "profile" /\ res.userid # 0
        raised == IF res.kind = "raise"
                  THEN inner_except(Exc(res.cls, [fmt |-> "{}", arg |-> key]), req.username)
                  ELSE HTTPExc(404, "Profile not found",
                               [fmt |-> "Invalid profile data received", arg |-> NoName])
    IN  /\ pc = "fetch"
        /\ fetch_timed_out(start_time, now) => (res.kind = "raise" /\ res.cls = "ConnectionException")
        /\ cache' = IF valid THEN cache_setitem(cache, key, ProfileData(key, res), now) ELSE cache
        /\ lastPut' = IF valid THEN Put(lastPut, key, [at |-> now, record |-> ProfileData(key, res)])
                      ELSE lastPut
        /\ fetched' = res
        /\ resp' = IF valid THEN Success(ProfileData(key, res)) ELSE outer_except(raised)
        /\ pc' = "done"
        /\ trace' = IF valid THEN trace \o <<"fetch", "setitem">> ELSE Append(trace, "fetch")
        /\ health' = NoHealth
        /\ UNCHANGED <<now, req, limiter, admitLog, win, shadow, shadowOK, wasDenied, observed, start_time>>

\* the response is sent; the event loop can start the next handler
Finish ==
    /\ pc = "done"
    /\ pc' = "idle"
    /\ req' = NoReq
    /\ resp' = NoResponse
    /\ trace' = <<>>
    /\ fetched' = NoFetch
    /\ start_time' = NoTime
    /\ health' = NoHealth
    /\ UNCHANGED <<now, limiter, cache, admitLog, win, shadow, shadowOK, lastPut, wasDenied, observed>>

\* mutant of health_check: /health is limited like the lookups
health_check_limited(client) ==
    LET key == get_remote_address(client)
    IN  /\ pc = "idle"
        /\ hit_allowed(limiter, key, now)
        /\ limiter' = storage_incr(limiter, key, now)
        /\ cache' = cache_expire(cache, now)
        /\ health' = [client |-> client, status |-> "healthy", timestamp |-> now,
                      cache_size |-> cache_len(cache, now)]
        /\ UNCHANGED <<now, pc, req, resp, trace, admitLog, win, shadow, shadowOK,
                       lastPut, fetched, wasDenied, observed, start_time>>

\* lines 152-159: /health has no limiter decorator; it answers "healthy" with
\* the time and len(profile_cache), which purges the expired entries
health_check(client) ==
    /\ pc = "idle"
    /\ cache' = cache_expire(cache, now)
    /\ health' = [client |-> client, status |-> "healthy", timestamp |-> now,
                  cache_size |-> cache_len(cache, now)]
    /\ UNCHANGED <<now, pc, req, resp, limiter, trace, admitLog, win, shadow, shadowOK,
                   lastPut, fetched, wasDenied, observed, start_time>>

\* time passes, also while a handler is running, but not past the end of the
\* last connection attempt of a fetch; "done" is the instant of the handler's return
Tick ==
    /\ now < MaxTime
    /\ pc # "done"
    /\ pc = "fetch" => ~fetch_timed_out(start_time, now)
    /\ now' = now + 1
    /\ limiter' = storage_expire(limiter, now')
    /\ shadow' = [a \in Identities |-> storage_expire(shadow[a], now')]
    /\ admitLog' = recent(admitLog, now')
    /\ win' = win_expire(win, now')
    /\ health' = NoHealth
    /\ UNCHANGED <<pc, req, resp, cache, trace, shadowOK, lastPut, fetched, wasDenied, observed, start_time>>

Step(clients, usernames) ==
    \/ \E client \in clients, username \in usernames : Arrive(client, username)
    \/ CacheContains
    \/ CacheGetItem
    \/ \E res \in FetchResults : FetchReturn(res)
    \/ Finish
    \/ \E client \in clients : health_check(client)
    \/ Tick

\* every client, the case variants of one username
Next == Step(Identities, RateUsernames)

Spec == Init /\ [][Next]_vars

\* the clock advances, a running handler runs to its return (the fetch
\* returns or raises after at most its timeouts), and the client keeps asking
LiveNext == Step(LiveIdentities, LiveUsernames)

LiveSpec ==
    /\ Init /\ [][LiveNext]_vars
    /\ WF_vars(Tick)
    /\ WF_vars(CacheContains)
    /\ WF_vars(CacheGetItem)
    /\ WF_vars(\E res \in FetchResults : FetchReturn(res))
    /\ WF_vars(Finish)
    /\ \A client \in LiveIdentities : SF_vars(\E username \in LiveUsernames : Arrive(client, username))

\* one client, every username
CacheNext == Step(CacheIdentities, Usernames)

CacheSpec == Init /\ [][CacheNext]_vars

\* ------------------------------------------------------------------ claims
\* number of admitted requests among the results of a window
Admitted(w) == Cardinality({i \in DOMAIN w.results : w.results[i] # "denied"})

\* C1: a lookup that misses the cache and whose fetch reports that the
\* profile does not exist ends in NotFound (404) with details naming the
\* requested username.  The code answers 500: the HTTPException(404) of
\* line 97 is raised inside the outer try and caught at line 145.
C1_NotExistsIsNotFound ==
    (pc = "done" /\ fetched.kind = "raise" /\ fetched.cls = "ProfileNotExistsException")
        => (resp.status = 404 /\ resp.details.arg = req.username)

\* C2 as stated: the observed client never has more than `amount` admissions inside any
\* interval of one window length (admitLog holds the admissions of the
\* interval of that length that ends now).
C2_AnyIntervalAtMostLimit == Len(admitLog) <= amount

\* C2 amended: the observed client never has more than `amount` admissions inside one window
\* of the limiter, and an interval of one window length, which can straddle
\* two windows, holds at most 2 * amount - 1 admissions.
C2_WindowAtMostLimit ==
    /\ Admitted(win) <= amount
    /\ Len(admitLog) <= 2 * amount - 1

C2_Witness == Len(admitLog) = 2 * amount - 1 /\ Admitted(win) = amount

\* C3: a denied request is answered 429 having touched nothing but the
\* limiter, and in every handler the limit check is the first thing done
\* and is done once.
C3_LimiterFirst ==
    /\ resp.status = 429 => (pc = "done" /\ trace = <<"limit">> /\ fetched = NoFetch)
    /\ trace # <<>> => (trace[1] = "limit" /\ \A i \in 2..Len(trace) : trace[i] # "limit")
    /\ pc \in {"contains", "getitem", "fetch"} => trace # <<>>

C3_Witness ==
    /\ pc = "done"
    /\ resp.status = 429
    /\ cache_contains(cache, lower(req.username), now)

\* the elements of a sequence
Range(q) == {q[i] : i \in DOMAIN q}

\* two usernames that differ in the case of their letters only
CasePairs == {{"a", "A"}, {"b", "B"}, {"c", "C"}}

SameName(u, v) ==
    /\ Len(u) = Len(v)
    /\ \A i \in DOMAIN u : u[i] = v[i] \/ {u[i], v[i]} \in CasePairs

\* C4: while the entry of a successful fetch is in the cache and its time to
\* live has not run out, the handler of a request for any case variant of its
\* username finds it at the membership test and returns the fetched record
\* from the read, without a call of the external source.
C4_HitReturnsCached ==
    [][\A k \in DOMAIN lastPut :
          (SameName(k, req.username) /\ k \in DOMAIN cache.data /\ now < lastPut[k].at + ttl)
              => /\ (pc = "contains" /\ pc' # "contains") => pc' = "getitem"
                 /\ (pc = "getitem" /\ pc' # "getitem")
                        => /\ resp' = Success(lastPut[k].record)
                           /\ "fetch" \notin Range(trace')
                           /\ fetched' = NoFetch
                           /\ lastPut' = lastPut]_vars

C4_Witness ==
    /\ pc = "done"
    /\ resp.status = 200
    /\ trace = <<"limit", "contains", "getitem">>
    /\ req.username # lower(req.username)
    /\ resp.body = lastPut[lower(req.username)].record
    /\ lastPut[lower(req.username)].at < now

\* C5: of the requests of the observed client in one window of the limiter, the first
\* `amount` are admitted and every later one is denied, whatever was asked
\* for and however it was served.
C5_FirstLimitAdmitted ==
    \A i \in DOMAIN win.results : (win.results[i] # "denied") <=> (i <= amount)

C5_Witness ==
    /\ Len(win.results) = amount + 1
    /\ win.results[amount + 1] = "denied"
    /\ "cached" \in Range(win.results)
    /\ "admitted" \in Range(win.results)

\* C6: every request is answered by the limiter as it is answered in the
\* run from which the requests of any one other client are removed, and the
\* budget a client has used is the same in both runs.
C6_Independent ==
    /\ shadowOK
    /\ \A a \in Identities : \A b \in Identities \ {a} :
          window_count(limiter, get_remote_address(b), now)
              = window_count(shadow[a], get_remote_address(b), now)

C6_Witness ==
    \E a \in Identities : \E b \in Identities \ {a} :
        /\ pc = "contains"
        /\ req.client = b
        /\ window_count(limiter, a, now) > amount
        /\ window_count(limiter, b, now) = amount

\* the observed client was denied in a window that ends before the clock stops
DeniedInWindow ==
    /\ "denied" \in Range(win.results)
    /\ win.start + per_minute <= MaxTime

\* the last request of the observed client was admitted
AdmittedNow ==
    /\ win.results # <<>>
    /\ win.results[Len(win.results)] # "denied"

\* C7: the first request of the observed client after the window in which it was
\* denied is admitted, and a client denied in a window that ends before the
\* clock stops is eventually admitted again.
C7_Reset ==
    /\ [][(wasDenied /\ win = NoWindow /\ pc = "idle" /\ req'.client = observed)
              => (pc' = "contains" /\ req'.again /\ win'.results = <<"admitted">>)]_vars
    /\ DeniedInWindow ~> AdmittedNow

C7_Witness ==
    /\ req.again
    /\ Admitted(win) = amount
    /\ "denied" \notin Range(win.results)

\* C8: a lookup made when the time to live of the last insert of its key
\* has run out misses and goes to the external source; the expiry of an
\* entry is the time of its last insert plus ttl, and only an insert of the
\* key changes it.
C8_HardTTL ==
    [][/\ \A k \in DOMAIN lastPut :
             (pc = "contains" /\ pc' # "contains" /\ SameName(k, req.username)
                  /\ now >= lastPut[k].at + ttl) => pc' = "fetch"
       /\ \A k \in DOMAIN cache'.expires : cache'.expires[k] = lastPut'[k].at + ttl
       /\ \A k \in (DOMAIN cache.expires) \cap (DOMAIN cache'.expires) :
             cache'.expires[k] # cache.expires[k]
                 => (pc = "fetch" /\ SameName(k, req.username) /\ "setitem" \in Range(trace'))]_vars

C8_Witness ==
    \E k \in DOMAIN cache.data :
        /\ pc = "fetch"
        /\ SameName(k, req.username)
        /\ now >= lastPut[k].at + ttl

\* every entry of the cache is unexpired and the cache is full
FullOfLive(c, t) ==
    /\ Cardinality(DOMAIN c.data) = maxsize
    /\ \A k \in DOMAIN c.data : t < c.expires[k]

\* C9: the cache never holds more than maxsize entries nor two entries
\* whose keys differ in case only, and the insert of a new key into a cache
\* full of unexpired entries removes exactly one of them.
C9_CacheBound ==
    /\ [](/\ Cardinality(DOMAIN cache.data) <= maxsize
          /\ Len(cache.links) = Cardinality(DOMAIN cache.data)
          /\ Range(cache.links) = DOMAIN cache.data
          /\ DOMAIN cache.expires = DOMAIN cache.data
          /\ \A k1 \in DOMAIN cache.data : \A k2 \in DOMAIN cache.data :
                SameName(k1, k2) => k1 = k2)
    /\ [][(/\ pc = "fetch"
           /\ "setitem" \in Range(trace')
           /\ \A k \in DOMAIN cache.data : ~SameName(k, req.username)
           /\ FullOfLive(cache, now))
              => /\ Cardinality(DOMAIN cache'.data) = maxsize
                 /\ Cardinality((DOMAIN cache.data) \ (DOMAIN cache'.data)) = 1
                 /\ \E k \in DOMAIN cache'.data : SameName(k, req.username)]_vars

C9_Witness ==
    /\ pc = "done"
    /\ "setitem" \in Range(trace)
    /\ Cardinality(DOMAIN cache.data) = maxsize
    /\ \E k \in (DOMAIN lastPut) \ (DOMAIN cache.data) : now < lastPut[k].at + ttl

\* C10: the limiter's counter of the observed client is the number of requests the
\* client has made in its window, those served from the cache included, and
\* the admitted ones are the first `amount` of them.
C10_HitsConsumeBudget ==
    LET n == window_count(limiter, get_remote_address(observed), now)
    IN  /\ n = Len(win.results)
        /\ Admitted(win) = (IF n <= amount THEN n ELSE amount)

C10_Witness ==
    /\ Len(win.results) = amount + 1
    /\ \A i \in 1..amount : win.results[i] = "cached"
    /\ win.results[amount + 1] = "denied"

\* C11: a lookup whose fetch returns a profile without a userid ends in
\* NotFound (404) with the details "Invalid profile data received", never in
\* success and never in a 500.
C11_MissingIdIsNotFound ==
    (pc = "done" /\ fetched.kind = "profile" /\ fetched.userid = 0)
        => (resp.status = 404 /\ resp.details.fmt = "Invalid profile data received")

\* C12: a lookup whose fetch raises a ConnectionException ends in
\* UpstreamUnavailable (503, "Instagram connection failed"), not in 404 or 500.
C12_ConnectionIsUnavailable ==
    (pc = "done" /\ fetched.kind = "raise" /\ fetched.cls = "ConnectionException")
        => (resp.status = 503 /\ resp.error = "Instagram connection failed")

C12_Witness ==
    /\ pc = "done"
    /\ fetched.kind = "raise"
    /\ fetched.cls = "ConnectionException"
    /\ "fetch" \in Range(trace)
    /\ resp.status = 503

\* time the fetch of the running handler has taken
fetch_time == IF start_time = NoTime THEN 0 ELSE now - start_time

Outcomes ==
    {<<200, "none">>, <<429, "Rate limit exceeded">>, <<404, "Profile not found">>,
     <<503, "Instagram connection failed">>, <<500, "Instagram data fetch failed">>,
     <<500, "Internal server error">>}

\* C14: a handler that has returned has produced one response, which is
\* one of the outcomes, whatever the fetch returned or raised and also when
\* the read of the cache raised; a handler that has not returned has produced
\* none, and a response is produced once.
C14_OneOutcome ==
    /\ []((pc = "done") <=> (resp # NoResponse))
    /\ [](pc = "done" => /\ <<resp.status, resp.error>> \in Outcomes
                         /\ (resp.status = 200) <=> ("body" \in DOMAIN resp))
    /\ [][resp' # resp => (resp = NoResponse \/ resp' = NoResponse)]_vars

C14_Witness ==
    /\ pc = "done"
    /\ fetched.kind = "raise"
    /\ fetched.cls = "Exception"
    /\ <<resp.status, resp.error>> = <<500, "Internal server error">>

\* the event loop can start the handler of another request now
CanStart == ENABLED (\E client \in Identities, username \in Usernames : Arrive(client, username))

\* C15: lookups are handled in parallel: while an admitted request is inside
\* the fetch, the handler of another request can be started, so that two
\* requests (of one username or of two) are inside the fetch at the same time.
C15_ParallelFetch == pc = "fetch" => CanStart

\* what the code does instead: from the limiter check of a request to its
\* response no other handler is started
C15_OneAtATime == (pc \in {"contains", "getitem", "fetch", "done"}) => ~CanStart

\* the entries of the cache whose time to live has not run out
Unexpired(c, t) == {k \in DOMAIN c.data : t < c.expires[k]}

\* C16: whenever the event loop is free, /health answers every client, also
\* one whose budget is used up; its answer is "healthy" with the number of
\* unexpired entries of the cache, and it leaves the limiter as it was.
C16_Health ==
    /\ [](health # NoHealth
             => /\ health.status = "healthy"
                /\ health.timestamp = now
                /\ health.cache_size = Cardinality(Unexpired(cache, now)))
    /\ [](pc = "idle" => \A client \in Identities : ENABLED health_check(client))
    /\ [][health' # NoHealth
             => /\ limiter' = limiter
                /\ Unexpired(cache', now') = Unexpired(cache, now)
                /\ health'.cache_size = Cardinality(Unexpired(cache, now))]_vars

C16_Witness ==
    /\ health # NoHealth
    /\ health.client = observed
    /\ window_count(limiter, get_remote_address(observed), now) > amount
    /\ health.cache_size = 1
    /\ lastPut[<<"a">>].at < now

\* C17: a request that found its key at the membership test returns success
\* with the cached record, also when the clock advances between the test
\* and the read.
C17_FoundIsServed ==
    (pc = "done" /\ "getitem" \in Range(trace))
        => (resp.status = 200 /\ resp.body = lastPut[lower(req.username)].record)

\* the unexpired entries of the cache with their values and expiry times
Live(c, t) == [k \in Unexpired(c, t) |-> [value |-> c.data[k], expires |-> c.expires[k]]]

\* C18: the step that ends a lookup in another outcome than success leaves
\* the unexpired entries of the cache, their values and their expiry times as
\* they were, and so does every step of a handler but the return of a
\* successful fetch.
C18_FailureKeepsCache ==
    [][/\ (pc # "done" /\ pc' = "done" /\ resp'.status # 200)
              => Live(cache', now') = Live(cache, now)
       /\ (now' = now /\ Live(cache', now') # Live(cache, now))
              => (pc = "fetch" /\ pc' = "done" /\ resp'.status = 200
                    /\ "setitem" \in Range(trace'))]_vars

C18_Witness ==
    /\ pc = "done"
    /\ "fetch" \in Range(trace)
    /\ resp.status \in {404, 500, 503}
    /\ Unexpired(cache, now) # {}
    /\ lower(req.username) \notin DOMAIN cache.data

\* the keys of the cache that are new or have a new value after a step
Written(c, d) == {k \in DOMAIN d.data : k \notin DOMAIN c.data \/ d.data[k] # c.data[k]}

\* C19: every key of the cache is a lower-cased username and its value is the
\* record of the last successful fetch for that key; an entry is created or
\* replaced only by the return of a fetch that was asked for the key and
\* returned a profile with a userid, never by a hit, a denied request or a
\* failed fetch.
C19_EntriesAreFetched ==
    /\ [](\A k \in DOMAIN cache.data :
             /\ k = lower(k)
             /\ k \in DOMAIN lastPut
             /\ cache.data[k] = lastPut[k].record
             /\ cache.data[k].username = k)
    /\ [][\A k \in Written(cache, cache') :
             /\ pc = "fetch"
             /\ k = lower(req.username)
             /\ fetched'.kind = "profile"
             /\ fetched'.userid # 0
             /\ cache'.data[k] = ProfileData(k, fetched')
             /\ resp' = Success(cache'.data[k])]_vars

C19_Witness ==
    /\ pc = "done"
    /\ "setitem" \in Range(trace)
    /\ req.username = <<"A">>
    /\ DOMAIN cache.data = {<<"a">>}
    /\ fetched.userid # 0

====
